---- MODULE Spec2Model ----
(***************************************************************************)
(* A model of prana_local_api_client.                                      *)
(*                                                                         *)
(*  - PranaLocalApiClient (prana_api_client.py): the session handle of one *)
(*    client instance, the four device operations that all run through     *)
(*    _async_request, and the scoped entry/exit (__aenter__/__aexit__).    *)
(*    Every `await` of the code is a point where another coroutine of the  *)
(*    same event loop may run, so an operation is split at its awaits.     *)
(*  - normalize_state / fetch_and_normalize_state (state_normalizer.py):   *)
(*    Python dictionaries are objects; a state is a top-level mapping      *)
(*    whose fan entries are references into a heap of nested mappings.     *)
(***************************************************************************)
EXTENDS Integers, Sequences, FiniteSets, TLC

(***************************************************************************)
(* Bounds of the model.                                                    *)
(***************************************************************************)
NumOps == 2        \* operation invocations that may be pending at once
NumScopes == 1     \* logical flows that enter/exit the client as a scope
MaxSessions == 2   \* ClientSession objects created in one behaviour

Ops == 1..NumOps
Scopes == 1..NumScopes

(***************************************************************************)
(* Program constants.                                                      *)
(***************************************************************************)
HttpOk == 200

VARIABLES
    session,         \* self.session: 0 is None, otherwise a session id
    nsessions,       \* ClientSession objects created so far (ids 1..nsessions)
    closed,          \* ids of the sessions on which close() has been called
    op,              \* op[o]: invocation o of _async_request: position and locals
    last,            \* the call that finished most recently, with its outcome
    scope,           \* scope[f]: flow f in `async with client:`
    lastExit,        \* the scope exit that finished most recently
    closedInFlight,  \* history: a session was closed under a pending request
    startedOnClosed, \* history: a request was started on a closed session
    overlapped,      \* history: flows overlapped outside a single held scope
    npc,             \* where the caller of the State Normalizer is
    rawTop,          \* the raw_state object: its top-level mapping
    heap,            \* the nested mappings raw_state refers to, by reference
    nin,             \* history: the argument as it was when the call was made
    nres             \* the outcome of the call that finished most recently

cvars == <<session, nsessions, closed, op, last, scope, lastExit,
           closedInFlight, startedOnClosed, overlapped>>

nvars == <<npc, rawTop, heap, nin, nres>>

vars == <<cvars, nvars>>

(***************************************************************************)
(* Outcomes of a call: a returned value or a raised exception.             *)
(***************************************************************************)
NoOutcome == [kind |-> "none", exc |-> "", status |-> 0, val |-> "", cause |-> ""]
Return(v) == [kind |-> "return", exc |-> "", status |-> 0, val |-> v, cause |-> ""]
Raise(e, s, c) == [kind |-> "raise", exc |-> e, status |-> s, val |-> "", cause |-> c]

(***************************************************************************)
(* The exception classes in play and Python's subclass relation on them.   *)
(* ClientTimeout is aiohttp's timeout configuration class (the code builds *)
(* one with ClientTimeout(total=10)); it is not an exception class.        *)
(***************************************************************************)
ExceptionClasses ==
    {"PranaApiClientException", "PranaApiCommunicationError", "PranaApiUpdateFailed",
     "ClientError", "TimeoutError", "TypeError", "AttributeError", "RuntimeError"}

IsSubclass(e, c) ==
    \/ e = c
    \/ e \in {"PranaApiCommunicationError", "PranaApiUpdateFailed"}
         /\ c = "PranaApiClientException"

\* except (ClientError, ClientTimeout) as err:
HandlerClasses == {"ClientError", "ClientTimeout"}

(***************************************************************************)
(* The four operations: method and path of the request each one issues.    *)
(***************************************************************************)
OpNames == {"get_state", "set_speed", "set_switch", "set_brightness"}

Method(name) == IF name = "get_state" THEN "GET" ELSE "POST"

Path(name) ==
    CASE name = "get_state" -> "/getState"
      [] name = "set_speed" -> "/setSpeed"
      [] name = "set_switch" -> "/setSwitch"
      [] name = "set_brightness" -> "/setBrightness"

\* get_state returns what _async_request returns; the setters return None.
OpResult(name, out) ==
    IF out.kind = "return" /\ name # "get_state" THEN Return("None") ELSE out

(***************************************************************************)
(* What the device and the network can answer to one request.              *)
(***************************************************************************)
Statuses == {200, 404, 500}

NoResponse == [ev |-> "none", status |-> 0, ctype |-> ""]
SessionClosed == [ev |-> "closed", status |-> 0, ctype |-> ""]

Responses ==
    [ev : {"http"}, status : Statuses, ctype : {"application/json", "text/plain"}]
    \cup [ev : {"fault", "timeout"}, status : {0}, ctype : {""}]

\* The body of the try block: the request and the reading of the response.
\* A connection failure surfaces as aiohttp's ClientError, the expiry of
\* ClientTimeout(total=10) as TimeoutError, a request on a closed session as
\* RuntimeError.
TryBody(resp) ==
    IF resp.ev = "fault" THEN Raise("ClientError", 0, "")
    ELSE IF resp.ev = "timeout" THEN Raise("TimeoutError", 0, "")
    ELSE IF resp.ev = "closed" THEN Raise("RuntimeError", 0, "")
    ELSE IF resp.status # HttpOk THEN Raise("PranaApiUpdateFailed", resp.status, "")
    ELSE IF resp.ctype = "application/json" THEN Return("json")
    ELSE Return("None")

\* An exception reaching the except clause. Python first checks that every
\* class of the clause inherits from BaseException and raises TypeError
\* otherwise; only then is the exception matched against the classes.
ExceptClause(r) ==
    IF \E c \in HandlerClasses : c \notin ExceptionClasses
    THEN Raise("TypeError", 0, r.exc)
    ELSE IF \E c \in HandlerClasses : IsSubclass(r.exc, c)
    THEN Raise("PranaApiCommunicationError", 0, r.exc)
    ELSE r

RequestOutcome(resp) ==
    LET r == TryBody(resp) IN IF r.kind = "raise" THEN ExceptClause(r) ELSE r

\* if not self.session: a session is created for this call
AlwaysNewSession(s) == TRUE
NeedsSession(s) == s = 0

\* finally: if session_was_created: close the session and clear the reference
ClosesOnSuccessOnly(created, out) == created /\ out.kind = "return"
ClosesAlways(created, out) == TRUE
ClosesInFinally(created, out) == created

(***************************************************************************)
(* Who else is using the instance.                                         *)
(***************************************************************************)
InFlight(o) == op[o].pc \in {"awaiting", "closing"}
OthersInFlight(o) == \E p \in Ops \ {o} : InFlight(p)
AnyInFlight == \E p \in Ops : InFlight(p)
ScopeActive(f) == scope[f].pc \in {"in", "exiting"}
Quiescent == ~AnyInFlight /\ \A f \in Scopes : scope[f].pc = "out"

\* requests of invocations other than o that are pending on session s
PendingOn(s, o) == \E p \in Ops \ {o} : op[p].pc = "awaiting" /\ op[p].sess = s

IdleOp == [pc |-> "idle", name |-> "", created |-> FALSE, sess |-> 0,
           resp |-> NoResponse, out |-> NoOutcome]
NoCall == [name |-> "", created |-> FALSE, sess |-> 0, resp |-> NoResponse,
           out |-> NoOutcome]
OutScope == [pc |-> "out", sess |-> 0, path |-> ""]
NoExit == [sess |-> 0, path |-> "", res |-> "none"]

CInit ==
    /\ session = 0
    /\ nsessions = 0
    /\ closed = {}
    /\ op = [o \in Ops |-> IdleOp]
    /\ last = NoCall
    /\ scope = [f \in Scopes |-> OutScope]
    /\ lastExit = NoExit
    /\ closedInFlight = FALSE
    /\ startedOnClosed = FALSE
    /\ overlapped = FALSE

(***************************************************************************)
(* __aenter__: a new ClientSession is stored in self.session.              *)
(***************************************************************************)
Enter(f) ==
    /\ scope[f].pc = "out"
    /\ nsessions < MaxSessions
    /\ nsessions' = nsessions + 1
    /\ session' = nsessions + 1
    /\ scope' = [scope EXCEPT ![f] = [pc |-> "in", sess |-> nsessions + 1, path |-> ""]]
    /\ overlapped' = (overlapped \/ ~Quiescent)
    /\ UNCHANGED <<closed, op, last, lastExit, closedInFlight, startedOnClosed>>
    /\ UNCHANGED nvars

(***************************************************************************)
(* __aexit__, up to its await: close() is called on whatever self.session  *)
(* refers to now; on None the attribute access raises AttributeError.      *)
(* path tells whether the body of the scope ended normally or by an error; *)
(* __aexit__ does not look at it.                                          *)
(***************************************************************************)
Exit(f, path) ==
    /\ scope[f].pc = "in"
    /\ overlapped' = (overlapped \/ AnyInFlight
                        \/ \E g \in Scopes \ {f} : ScopeActive(g))
    /\ IF session = 0
       THEN /\ scope' = [scope EXCEPT ![f] = OutScope]
            /\ lastExit' = [sess |-> scope[f].sess, path |-> path,
                            res |-> "AttributeError"]
            /\ UNCHANGED <<closed, closedInFlight>>
       ELSE /\ scope' = [scope EXCEPT ![f].pc = "exiting", ![f].path = path]
            /\ closed' = closed \cup {session}
            /\ closedInFlight' = (closedInFlight \/ PendingOn(session, 0))
            /\ UNCHANGED lastExit
    /\ UNCHANGED <<session, nsessions, op, last, startedOnClosed>>
    /\ UNCHANGED nvars

\* __aexit__ after `await self.session.close()`: self.session = None
ExitDone(f) ==
    /\ scope[f].pc = "exiting"
    /\ session' = 0
    /\ scope' = [scope EXCEPT ![f] = OutScope]
    /\ lastExit' = [sess |-> scope[f].sess, path |-> scope[f].path, res |-> "closed"]
    /\ UNCHANGED <<nsessions, closed, op, last,
                   closedInFlight, startedOnClosed, overlapped>>
    /\ UNCHANGED nvars

(***************************************************************************)
(* _async_request.                                                         *)
(***************************************************************************)
\* The finally block up to its await, for invocation o; c holds its locals
\* and out the outcome of the try statement.
Finally(o, c, out) ==
    IF ClosesInFinally(c.created, out)
    THEN IF session' = 0
         THEN \* None has no close(): AttributeError replaces the outcome
              /\ op' = [op EXCEPT ![o] = IdleOp]
              /\ last' = [c EXCEPT !.out = Raise("AttributeError", 0, out.exc)]
              /\ UNCHANGED <<closed, closedInFlight>>
         ELSE /\ op' = [op EXCEPT ![o] = [pc |-> "closing", name |-> c.name,
                           created |-> c.created, sess |-> c.sess,
                           resp |-> c.resp, out |-> out]]
              /\ closed' = closed \cup {session'}
              /\ closedInFlight' = (closedInFlight \/ PendingOn(session', o))
              /\ UNCHANGED last
    ELSE /\ op' = [op EXCEPT ![o] = IdleOp]
         /\ last' = [c EXCEPT !.out = OpResult(c.name, out)]
         /\ UNCHANGED <<closed, closedInFlight>>

\* From the entry to the await of the response (or, when the session
\* refuses the request, through the except clause to the finally block).
OpStart(o, name) ==
    /\ op[o].pc = "idle"
    /\ name \in OpNames
    /\ NeedsSession(session) => nsessions < MaxSessions
    /\ LET created == NeedsSession(session)
           sess == IF created THEN nsessions + 1 ELSE session
       IN /\ nsessions' = IF created THEN nsessions + 1 ELSE nsessions
          /\ session' = sess
          /\ overlapped' = (overlapped
                              \/ (\E g \in Scopes : scope[g].pc = "exiting")
                              \/ (OthersInFlight(o)
                                    /\ ~\E g \in Scopes : scope[g].pc = "in"))
          /\ IF sess \in closed
             THEN /\ startedOnClosed' = TRUE
                  /\ Finally(o, [name |-> name, created |-> created, sess |-> sess,
                                 resp |-> SessionClosed, out |-> NoOutcome],
                             RequestOutcome(SessionClosed))
             ELSE /\ op' = [op EXCEPT ![o] = [pc |-> "awaiting", name |-> name,
                               created |-> created, sess |-> sess,
                               resp |-> NoResponse, out |-> NoOutcome]]
                  /\ UNCHANGED <<closed, closedInFlight, startedOnClosed, last>>
    /\ UNCHANGED <<scope, lastExit>>
    /\ UNCHANGED nvars

\* The response (or the fault) arrives: the rest of the try block, the
\* except clause, and the finally block up to `await self.session.close()`.
OpRespond(o, resp) ==
    /\ op[o].pc = "awaiting"
    /\ resp \in Responses
    /\ session' = session
    /\ Finally(o, [name |-> op[o].name, created |-> op[o].created,
                   sess |-> op[o].sess, resp |-> resp, out |-> NoOutcome],
               RequestOutcome(resp))
    /\ UNCHANGED <<nsessions, scope, lastExit, startedOnClosed, overlapped>>
    /\ UNCHANGED nvars

\* The finally block after its await: self.session = None; the call ends.
OpClosed(o) ==
    /\ op[o].pc = "closing"
    /\ session' = 0
    /\ op' = [op EXCEPT ![o] = IdleOp]
    /\ last' = [name |-> op[o].name, created |-> op[o].created, sess |-> op[o].sess,
                resp |-> op[o].resp, out |-> OpResult(op[o].name, op[o].out)]
    /\ UNCHANGED <<nsessions, closed, scope, lastExit,
                   closedInFlight, startedOnClosed, overlapped>>
    /\ UNCHANGED nvars

(***************************************************************************)
(* The State Normalizer.                                                   *)
(*                                                                         *)
(* A JSON value is a record [t, n, d]:                                     *)
(*   int    the integer n * 10^d (d > 0 only for integers beyond the range *)
(*          of a float), bool the integer n (Python's bool is an int),     *)
(*   float  the number n / d, with d = 0 for inf and nan,                  *)
(*   str, none: scalars that are not numbers,                              *)
(*   dict   a reference n to a nested mapping of the heap.                 *)
(* A mapping is a function from the keys it holds to values.               *)
(***************************************************************************)
IntV(i) == [t |-> "int", n |-> i, d |-> 0]
BigV == [t |-> "int", n |-> 1, d |-> 400]
BoolV(b) == [t |-> "bool", n |-> b, d |-> 0]
FloatV(a, b) == [t |-> "float", n |-> a, d |-> b]
InfV == [t |-> "float", n |-> 1, d |-> 0]
StrV == [t |-> "str", n |-> 0, d |-> 0]
NoneV == [t |-> "none", n |-> 0, d |-> 0]
DictV(r) == [t |-> "dict", n |-> r, d |-> 0]

EmptyMap == [k \in {} |-> NoneV]
Put(m, k, v) == [x \in DOMAIN m \cup {k} |-> IF x = k THEN v ELSE m[x]]
\* dict.get(k): None when the key is missing
Get(m, k) == IF k \in DOMAIN m THEN m[k] ELSE NoneV

\* class PranaFanType / class PranaSensorType
PranaFanType == <<"bounded", "supply", "extract">>
PranaSensorType ==
    <<"inside_temperature", "outside_temperature",
      "inside_temperature_2", "outside_temperature_2">>
EXTRACT == PranaFanType[3]

Range(seq) == {seq[i] : i \in DOMAIN seq}

\* The reference of the nested mapping of each fan entry of the raw state.
RefOf(fan) == CHOOSE i \in DOMAIN PranaFanType : PranaFanType[i] = fan
Refs == DOMAIN PranaFanType

\* Results of evaluating an expression: a value or a raised exception.
Val(v) == [kind |-> "return", exc |-> "", val |-> v]
Exc(e) == [kind |-> "raise", exc |-> e, val |-> NoneV]

\* isinstance(v, dict) / isinstance(v, (int, float))
IsDict(v) == v.t = "dict"
IsNumber(v) == v.t \in {"int", "bool", "float"}

\* int(raw_val): truncation toward zero; inf and nan raise
IntOf(v) ==
    IF v.t = "float"
    THEN IF v.d = 0 THEN Exc("OverflowError")
         ELSE Val(IntV(IF v.n >= 0 THEN v.n \div v.d ELSE -((-v.n) \div v.d)))
    ELSE Val([t |-> "int", n |-> v.n, d |-> v.d])

\* i // 10 on an int: floor division
FloorDiv10(i) ==
    IF i.d > 0 THEN [i EXCEPT !.d = i.d - 1] ELSE IntV(i.n \div 10)

\* int(raw_val) // 10
DeriveFrom(raw_val) ==
    LET i == IntOf(raw_val) IN IF i.kind = "raise" THEN i ELSE Val(FloorDiv10(i.val))

\* state[temp_key] / 10: true division; an int beyond the range of a float
\* raises OverflowError
TrueDiv10(v) ==
    IF v.t = "float" THEN Val(FloatV(v.n, v.d * 10))
    ELSE IF v.d > 0 THEN Exc("OverflowError")
    ELSE Val(FloatV(v.n, 10))

\* try: ... except Exception: log (the value the code keeps is dflt)
Uncaught(r, dflt) == r
Except(r, dflt) == IF r.kind = "raise" THEN Val(dflt) ELSE r

\* The max_speed computation of normalize_state and, again, of
\* fetch_and_normalize_state, on a top-level mapping and the heap as they are.
MaxSpeedBody(top, h) ==
    LET extract == Get(top, EXTRACT) IN
    IF IsDict(extract) /\ "max_speed" \in DOMAIN h[extract.n]
    THEN LET raw_val == Get(h[extract.n], "max_speed") IN
         IF IsNumber(raw_val) THEN DeriveFrom(raw_val) ELSE Val(NoneV)
    ELSE Val(NoneV)

ComputeMaxSpeed(top, h) == Except(MaxSpeedBody(top, h), NoneV)

\* for fan in (BOUNDED, SUPPLY, EXTRACT): the fans whose max_speed is written
FansWithoutSupply == <<"bounded", "extract">>
FansWritten == PranaFanType

\* state[fan]["max_speed"] = max_speed, for each fan entry that is a dict:
\* the assignment goes to the nested mapping the entry refers to.
WriteFans(state, h, max_speed) ==
    [r \in Refs |->
        IF \E fan \in Range(FansWritten) :
              fan \in DOMAIN state /\ IsDict(state[fan]) /\ state[fan].n = r
        THEN Put(h[r], "max_speed", max_speed)
        ELSE h[r]]

\* The temperature loop: outcome of the conversion of one key
ConvertTemp(state, k) ==
    IF k \in DOMAIN state /\ IsNumber(state[k])
    THEN Except(TrueDiv10(state[k]), state[k])
    ELSE Val(Get(state, k))

ConvertTemps(state) ==
    [k \in DOMAIN state |->
        IF k \in Range(PranaSensorType) THEN ConvertTemp(state, k).val ELSE state[k]]

\* normalize_state(raw_state) with the heap h: the outcome, the returned
\* mapping and the heap after the call. arg is [isdict, top].
NormalizeState(arg, h) ==
    LET state == IF arg.isdict THEN arg.top ELSE EmptyMap
        ms == ComputeMaxSpeed(state, h)
        h2 == IF ms.kind = "return" /\ ms.val # NoneV
              THEN WriteFans(state, h, ms.val) ELSE h
        bad == {k \in Range(PranaSensorType) : ConvertTemp(state, k).kind = "raise"}
    IN IF ms.kind = "raise" THEN [kind |-> "raise", exc |-> ms.exc, state |-> EmptyMap, heap |-> h]
       ELSE IF bad # {}
       THEN [kind |-> "raise", exc |-> "OverflowError", state |-> EmptyMap, heap |-> h2]
       ELSE [kind |-> "return", exc |-> "", state |-> ConvertTemps(state), heap |-> h2]

(***************************************************************************)
(* The names state_normalizer takes from .exceptions, and the classes      *)
(* exceptions.py defines. A name exceptions.py does not define is bound to *)
(* nothing in state_normalizer (Python reports it when the import          *)
(* statement runs, as ImportError); the model reports it where it is used. *)
(***************************************************************************)
ExceptionsModule ==
    {"PranaApiClientException", "PranaApiCommunicationError", "PranaApiUpdateFailed"}
NormalizerImports == {"PranaApiUpdateFailed", "PranaApiCommunicationError", "UpdateFailed"}
Bound(name) == name \in NormalizerImports \cap ExceptionsModule

NoResult == [fn |-> "", kind |-> "none", exc |-> "", msg |-> "", cause |-> "",
             state |-> EmptyMap, max_speed |-> NoneV]
Returned(fn, st, ms) == [fn |-> fn, kind |-> "return", exc |-> "", msg |-> "",
                         cause |-> "", state |-> st, max_speed |-> ms]
Failed(fn, e, m, c) == [fn |-> fn, kind |-> "raise", exc |-> e, msg |-> m,
                        cause |-> c, state |-> EmptyMap, max_speed |-> NoneV]

\* raise UpdateFailed(f"{msg} ...: {err}") from err
RaiseUpdateFailed(msg, err) ==
    IF Bound("UpdateFailed")
    THEN Failed("fetch_and_normalize_state", "UpdateFailed", msg, err)
    ELSE Failed("fetch_and_normalize_state", "ImportError", "", err)

\* The three except clauses of fetch_and_normalize_state, in order.
FetchFailed(err) ==
    IF IsSubclass(err, "PranaApiUpdateFailed")
    THEN RaiseUpdateFailed("HTTP error communicating with device", err)
    ELSE IF IsSubclass(err, "PranaApiCommunicationError")
    THEN RaiseUpdateFailed("Network error communicating with device", err)
    ELSE RaiseUpdateFailed("Unexpected error updating device", err)

(***************************************************************************)
(* The raw states the calls are made on.                                   *)
(***************************************************************************)
MaxSpeedValues ==
    {IntV(100), IntV(123), IntV(5), IntV(-15), FloatV(157, 10), FloatV(-157, 10),
     InfV, BoolV(1), StrV, NoneV}
ExtractMaps ==
    {EmptyMap, [speed |-> IntV(3)], [max_speed |-> IntV(100), speed |-> IntV(3)]}
    \cup {[max_speed |-> v] : v \in MaxSpeedValues}
BoundedMaps == {EmptyMap, [max_speed |-> IntV(70)]}
SupplyMaps == {[speed |-> IntV(2)]}
FanKinds == {"absent", "scalar", "dict"}
InsideValues ==
    {IntV(215), IntV(-5), FloatV(2155, 10), BoolV(1), BigV, InfV, StrV, NoneV}
Absent == [t |-> "absent", n |-> 0, d |-> 0]

\* The top-level mapping with the entries that are not Absent.
MakeTop(entries) == [k \in {x \in DOMAIN entries : entries[x] # Absent} |-> entries[k]]

FanEntry(kind, fan) ==
    CASE kind = "absent" -> Absent
      [] kind = "scalar" -> StrV
      [] kind = "dict" -> DictV(RefOf(fan))

RawTop(bk, sk, ek, inside, outside, in2, out2, other) ==
    MakeTop([bounded |-> FanEntry(bk, "bounded"),
             supply |-> FanEntry(sk, "supply"),
             extract |-> FanEntry(ek, "extract"),
             inside_temperature |-> inside,
             outside_temperature |-> outside,
             inside_temperature_2 |-> in2,
             outside_temperature_2 |-> out2,
             brightness |-> other])

NInit ==
    /\ npc = "idle"
    /\ rawTop = EmptyMap
    /\ heap = [r \in Refs |-> EmptyMap]
    /\ nin = [isdict |-> FALSE, top |-> EmptyMap, heap |-> [r \in Refs |-> EmptyMap]]
    /\ nres = NoResult

\* The caller has a raw state in hand: a JSON object as the device sends it,
\* or something that is not a mapping.
NewRaw ==
    /\ npc = "idle"
    /\ \/ \E bk \in FanKinds, sk \in FanKinds, ek \in FanKinds,
             bm \in BoundedMaps, sm \in SupplyMaps, em \in ExtractMaps,
             inside \in InsideValues \cup {Absent}, outside \in {Absent, IntV(200)},
             in2 \in {Absent, StrV}, out2 \in {Absent, FloatV(-35, 10)},
             other \in {Absent, IntV(6)} :
             /\ bk # "dict" => bm = EmptyMap
             /\ ek # "dict" => em = EmptyMap
             /\ LET top == RawTop(bk, sk, ek, inside, outside, in2, out2, other)
                    h == [r \in Refs |->
                            CASE r = RefOf("bounded") -> bm
                              [] r = RefOf("supply") -> IF sk = "dict" THEN sm ELSE EmptyMap
                              [] r = RefOf("extract") -> em]
                IN /\ rawTop' = top
                   /\ heap' = h
                   /\ nin' = [isdict |-> TRUE, top |-> top, heap |-> h]
       \/ /\ rawTop' = EmptyMap
          /\ heap' = [r \in Refs |-> EmptyMap]
          /\ nin' = [isdict |-> FALSE, top |-> EmptyMap, heap |-> [r \in Refs |-> EmptyMap]]
    /\ npc' = "ready"
    /\ nres' = NoResult
    /\ UNCHANGED cvars

\* A direct call normalize_state(raw_state).
NormalizeCall ==
    /\ npc = "ready"
    /\ LET r == NormalizeState([isdict |-> nin.isdict, top |-> rawTop], heap)
       IN /\ heap' = r.heap
          /\ nres' = IF r.kind = "raise"
                     THEN Failed("normalize_state", r.exc, "", "")
                     ELSE Returned("normalize_state", r.state, NoneV)
    /\ npc' = "done"
    /\ UNCHANGED <<rawTop, nin>>
    /\ UNCHANGED cvars

\* fetch_and_normalize_state(api_client) up to the await of the fetch, by
\* _get_raw_state when the client has one and by get_state otherwise.
FetchStart(hasRawFetcher) ==
    /\ npc = "ready"
    /\ npc' = IF hasRawFetcher THEN "raw_fetch" ELSE "get_state"
    /\ UNCHANGED <<rawTop, heap, nin, nres>>
    /\ UNCHANGED cvars

\* The exceptions a fetch may raise: the two kinds of the Transport Client
\* and other exceptions.
FetchErrors ==
    {"PranaApiUpdateFailed", "PranaApiCommunicationError", "TypeError", "AttributeError"}

\* The fetch raised err: the except clauses.
FetchRaises(err) ==
    /\ npc \in {"raw_fetch", "get_state"}
    /\ err \in FetchErrors
    /\ nres' = FetchFailed(err)
    /\ npc' = "done"
    /\ UNCHANGED <<rawTop, heap, nin>>
    /\ UNCHANGED cvars

\* The fetch returned the raw state: the rest of fetch_and_normalize_state.
FetchReturns ==
    /\ npc \in {"raw_fetch", "get_state"}
    /\ IF ~nin.isdict
       THEN /\ nres' = Returned("fetch_and_normalize_state", EmptyMap, NoneV)
            /\ UNCHANGED heap
       ELSE LET r == NormalizeState([isdict |-> TRUE, top |-> rawTop], heap)
                max_speed == ComputeMaxSpeed(rawTop, r.heap)
            IN /\ heap' = r.heap
               /\ nres' = IF r.kind = "raise"
                          THEN Failed("fetch_and_normalize_state", r.exc, "", "")
                          ELSE IF max_speed.kind = "raise"
                          THEN Failed("fetch_and_normalize_state", max_speed.exc, "", "")
                          ELSE Returned("fetch_and_normalize_state", r.state, max_speed.val)
    /\ npc' = "done"
    /\ UNCHANGED <<rawTop, nin>>
    /\ UNCHANGED cvars

\* The caller is done with the result; the raw state and the result, both
\* created for this one call, are dropped.
NDone ==
    /\ npc = "done"
    /\ npc' = "idle"
    /\ rawTop' = EmptyMap
    /\ heap' = [r \in Refs |-> EmptyMap]
    /\ nin' = [isdict |-> FALSE, top |-> EmptyMap, heap |-> [r \in Refs |-> EmptyMap]]
    /\ nres' = NoResult
    /\ UNCHANGED cvars

NormNext ==
    \/ NewRaw
    \/ NormalizeCall
    \/ \E b \in BOOLEAN : FetchStart(b)
    \/ \E err \in FetchErrors : FetchRaises(err)
    \/ FetchReturns
    \/ NDone

(***************************************************************************)
(* One logical flow: nothing starts while something else is pending, and   *)
(* a scope is not entered inside a scope.                                  *)
(***************************************************************************)
SeqNext ==
    \/ \E f \in Scopes :
          /\ Quiescent
          /\ Enter(f)
    \/ \E f \in Scopes, path \in {"normal", "error"} :
          /\ ~AnyInFlight
          /\ Exit(f, path)
    \/ \E f \in Scopes : ExitDone(f)
    \/ \E o \in Ops, name \in OpNames :
          /\ ~AnyInFlight
          /\ \A f \in Scopes : scope[f].pc # "exiting"
          /\ OpStart(o, name)
    \/ \E o \in Ops, resp \in Responses : OpRespond(o, resp)
    \/ \E o \in Ops : OpClosed(o)

(***************************************************************************)
(* Several flows on one instance: any interleaving at the awaits. The      *)
(* lifecycle of the session does not depend on which operation is called,  *)
(* on the kind of a failure nor on how the body of a scope ended, so one   *)
(* of each is drawn.                                                       *)
(***************************************************************************)
ConcNames == {"get_state"}
ConcResponses == {r \in Responses : r.ev = "fault" \/ (r.status = HttpOk /\ r.ctype # "text/plain")}
ConcPaths == {"normal"}

ConcNext ==
    \/ \E o \in Ops, name \in ConcNames : OpStart(o, name)
    \/ \E o \in Ops, resp \in ConcResponses : OpRespond(o, resp)
    \/ \E o \in Ops : OpClosed(o)
    \/ \E f \in Scopes : Enter(f)
    \/ \E f \in Scopes, path \in ConcPaths : Exit(f, path)
    \/ \E f \in Scopes : ExitDone(f)

Init == CInit /\ NInit

SpecSeq == Init /\ [][SeqNext]_vars
SpecConc == Init /\ [][ConcNext]_vars
SpecNorm == Init /\ [][NormNext]_vars

(***************************************************************************)
(* Claims about the Transport Client.                                      *)
(***************************************************************************)
AllClosed == \A s \in 1..nsessions : s \in closed

\* C2: an operation answered with an HTTP status other than 200 fails with
\* PranaApiUpdateFailed carrying exactly that status.
C2_NonOkStatusRaisesUpdateFailed ==
    (last.resp.ev = "http" /\ last.resp.status # HttpOk)
        => /\ last.out.kind = "raise"
           /\ last.out.exc = "PranaApiUpdateFailed"
           /\ last.out.status = last.resp.status

\* C3: an operation whose request suffers a connection failure or a timeout
\* fails with PranaApiCommunicationError wrapping the fault, and every failure
\* of an operation is PranaApiUpdateFailed or PranaApiCommunicationError.
C3_FaultRaisesCommunicationError ==
    /\ last.resp.ev \in {"fault", "timeout"}
          => /\ last.out.kind = "raise"
             /\ last.out.exc = "PranaApiCommunicationError"
             /\ last.out.cause = TryBody(last.resp).exc
    /\ last.out.kind = "raise"
          => last.out.exc \in {"PranaApiUpdateFailed", "PranaApiCommunicationError"}

\* C4: an operation started with no session creates one for the call; when
\* the call has finished, whatever its outcome, that session is closed and
\* the reference is None; after any sequence of such calls every session
\* created is closed.
C4_AdHocSessionClosedAfterCall ==
    /\ \A o \in Ops :
          (op[o].pc = "awaiting" /\ \A f \in Scopes : scope[f].pc = "out")
              => /\ op[o].created
                 /\ op[o].sess = session
                 /\ session \notin closed
    /\ last.created => last.sess \in closed
    /\ Quiescent => session = 0 /\ AllClosed

C4_Witness ==
    /\ Quiescent
    /\ nsessions = 2
    /\ last.created
    /\ last.sess = 2
    /\ last.out.kind = "raise"
    /\ lastExit = NoExit

\* C5: inside a scope the client refers to the open session the entry
\* created, every operation runs on it and leaves it open, and every exit,
\* after a normal or a failed body, closes it and sets the reference to None.
C5_ScopedSessionLifecycle ==
    /\ \A f \in Scopes :
          scope[f].pc = "in"
              => /\ session = scope[f].sess
                 /\ session # 0
                 /\ session \notin closed
                 /\ \A o \in Ops :
                       InFlight(o) => /\ op[o].pc = "awaiting"
                                      /\ ~op[o].created
                                      /\ op[o].sess = scope[f].sess
    /\ lastExit.res # "none" => lastExit.res = "closed" /\ lastExit.sess \in closed
    /\ (lastExit.res # "none" /\ Quiescent) => session = 0

C5_Witness ==
    /\ Quiescent
    /\ lastExit.res = "closed"
    /\ lastExit.path = "error"
    /\ last.out.kind = "raise"
    /\ ~last.created
    /\ last.sess = lastExit.sess
    /\ session = 0

\* C10 as stated: in every interleaving of overlapping operations and scope
\* entries/exits no session is closed under a pending request of another
\* operation, no request starts on a closed session, and once everything has
\* finished every session created is closed.
C10_SafeInEveryInterleaving ==
    /\ ~closedInFlight
    /\ ~startedOnClosed
    /\ Quiescent => AllClosed

\* C10 amended: the same holds when operations overlap one another only
\* while a scope is held, the scope being entered when nothing else is
\* pending and exited when no operation is pending, and operations outside
\* a scope run one at a time.
C10_SafeWhenOverlapOnlyInsideScope ==
    ~overlapped => /\ ~closedInFlight
                   /\ ~startedOnClosed
                   /\ Quiescent => session = 0 /\ AllClosed

C10_Witness ==
    /\ ~overlapped
    /\ \A o \in Ops : op[o].pc = "awaiting"
    /\ last.out.kind # "none"

(***************************************************************************)
(* Claims about the State Normalizer. They are read when a call has        *)
(* finished: nin is the argument as it was before the call, rawTop and     *)
(* heap are the argument as it is now, nres is the outcome.                *)
(***************************************************************************)
FanArgs == Range(PranaFanType)
TempArgs == Range(PranaSensorType)

\* the argument's extract entry was a mapping with a numeric max_speed
ArgHasNumericMaxSpeed ==
    /\ nin.isdict
    /\ EXTRACT \in DOMAIN nin.top
    /\ nin.top[EXTRACT].t = "dict"
    /\ "max_speed" \in DOMAIN nin.heap[nin.top[EXTRACT].n]
    /\ nin.heap[nin.top[EXTRACT].n]["max_speed"].t \in {"int", "bool", "float"}

ArgMaxSpeed == nin.heap[nin.top[EXTRACT].n]["max_speed"]

\* int(m) is defined (m is not inf or nan)
Finite(m) == ~(m.t = "float" /\ m.d = 0)

\* int(m) // 10 as the claims state it
IntDiv10Of(m) ==
    IF m.t = "float"
    THEN (IF m.n >= 0 THEN m.n \div m.d ELSE -((-m.n) \div m.d)) \div 10
    ELSE m.n \div 10

\* the max_speed of fan entry `fan` of the returned mapping
ResultMaxSpeed(fan) == Get(heap[nres.state[fan].n], "max_speed")

\* C1: fetch_and_normalize_state returns as derived max_speed int(m) // 10 of
\* the max_speed m the raw extract entry had before normalization, and that
\* value is the max_speed of the extract entry of the returned state.
C1_DerivedMaxSpeedIsTenthOfRaw ==
    (/\ npc = "done"
     /\ nres.fn = "fetch_and_normalize_state"
     /\ nres.kind = "return"
     /\ ArgHasNumericMaxSpeed
     /\ Finite(ArgMaxSpeed))
        => /\ nres.max_speed = IntV(IntDiv10Of(ArgMaxSpeed))
           /\ nres.max_speed = ResultMaxSpeed(EXTRACT)

\* C6: a call of fetch_and_normalize_state ends by returning a pair or by
\* raising UpdateFailed, whose cause is the fault of the fetch and whose
\* message names its class.
C6_FetchFailsOnlyWithUpdateFailed ==
    (npc = "done" /\ nres.fn = "fetch_and_normalize_state")
        => \/ nres.kind = "return"
           \/ /\ nres.kind = "raise"
              /\ nres.exc = "UpdateFailed"
              /\ nres.cause \in FetchErrors
              /\ nres.msg =
                   (CASE nres.cause = "PranaApiUpdateFailed" ->
                           "HTTP error communicating with device"
                      [] nres.cause = "PranaApiCommunicationError" ->
                           "Network error communicating with device"
                      [] OTHER -> "Unexpected error updating device")

\* C7: after a call of normalize_state the argument, with the nested
\* bounded, supply and extract mappings it refers to, has the contents it
\* had before the call.
C7_ArgumentUnchanged ==
    npc = "done" => rawTop = nin.top /\ heap = nin.heap

\* C8: when the extract entry is a mapping with a numeric max_speed m, each
\* of bounded, supply and extract that is a mapping has max_speed
\* int(m) // 10 in the result and no absent fan entry is inserted; when there
\* is no extract mapping with a numeric max_speed, the result is the input
\* but for the temperature conversions.
C8_MaxSpeedWrittenToEveryFan ==
    (npc = "done" /\ nin.isdict /\ nres.kind = "return")
        => /\ (ArgHasNumericMaxSpeed /\ Finite(ArgMaxSpeed))
                 => \A fan \in FanArgs :
                       IF fan \in DOMAIN nin.top
                       THEN /\ fan \in DOMAIN nres.state
                            /\ nres.state[fan] = nin.top[fan]
                            /\ nin.top[fan].t = "dict"
                                  => ResultMaxSpeed(fan) = IntV(IntDiv10Of(ArgMaxSpeed))
                       ELSE fan \notin DOMAIN nres.state
           /\ ~ArgHasNumericMaxSpeed
                 => /\ DOMAIN nres.state = DOMAIN nin.top
                    /\ \A k \in DOMAIN nin.top \ TempArgs : nres.state[k] = nin.top[k]
                    /\ heap = nin.heap

C8_Witness ==
    /\ npc = "done"
    /\ nres.fn = "normalize_state"
    /\ nres.kind = "return"
    /\ ArgHasNumericMaxSpeed
    /\ ArgMaxSpeed = IntV(123)
    /\ "bounded" \in DOMAIN nin.top /\ nin.top["bounded"].t = "dict"
    /\ nin.heap[RefOf("bounded")] = [max_speed |-> IntV(70)]
    /\ "supply" \in DOMAIN nin.top /\ nin.top["supply"].t = "dict"
    /\ ResultMaxSpeed("bounded") = IntV(12)
    /\ ResultMaxSpeed("supply") = IntV(12)
    /\ ResultMaxSpeed("extract") = IntV(12)

\* the value a numeric temperature has after division by 10
TempTenth(v) == IF v.t = "float" THEN FloatV(v.n, v.d * 10) ELSE FloatV(v.n, 10)

\* a number that division by 10 turns into a float
Divisible(v) == v.t = "float" \/ (v.t \in {"int", "bool"} /\ v.d = 0)

\* C9: normalize_state never raises; an argument that is not a mapping
\* gives an empty mapping; a fan or temperature entry that is missing is not
\* inserted and one that is not of the expected type (a number in Python's
\* sense for a temperature or max_speed, a mapping for a fan) is left as it
\* was, while the other entries are still normalized.
C9_NormalizeNeverRaises ==
    (npc = "done" /\ nres.fn = "normalize_state")
        => /\ nres.kind = "return"
           /\ ~nin.isdict => nres.state = EmptyMap
           /\ nin.isdict
                 => /\ DOMAIN nres.state = DOMAIN nin.top
                    /\ \A fan \in FanArgs \cap DOMAIN nin.top : nres.state[fan] = nin.top[fan]
                    /\ (~ArgHasNumericMaxSpeed \/ ~Finite(ArgMaxSpeed)) => heap = nin.heap
                    /\ (ArgHasNumericMaxSpeed /\ Finite(ArgMaxSpeed))
                          => ResultMaxSpeed(EXTRACT) = IntV(IntDiv10Of(ArgMaxSpeed))
                    /\ \A k \in TempArgs \cap DOMAIN nin.top :
                          nres.state[k] =
                             IF Divisible(nin.top[k])
                             THEN TempTenth(nin.top[k])
                             ELSE nin.top[k]

C9_Witness ==
    /\ npc = "done"
    /\ nres.fn = "normalize_state"
    /\ nres.kind = "return"
    /\ nin.isdict
    /\ ArgHasNumericMaxSpeed /\ ArgMaxSpeed = InfV
    /\ "supply" \notin DOMAIN nres.state
    /\ "bounded" \in DOMAIN nin.top /\ nres.state["bounded"] = StrV
    /\ "inside_temperature" \in DOMAIN nin.top
    /\ nin.top["inside_temperature"] = BigV
    /\ nres.state["inside_temperature"] = BigV
    /\ "inside_temperature_2" \in DOMAIN nres.state
    /\ nres.state["inside_temperature_2"] = StrV
    /\ "outside_temperature" \in DOMAIN nres.state
    /\ nres.state["outside_temperature"] = FloatV(200, 10)
====
